---- MODULE Spec2Model ----
(***************************************************************************)
(* Object-level privileges of mongoengine-privileges: PrivilegeMixin       *)
(* (privilegemixin.py), Privilege (privilege.py) and PermissionError       *)
(* (exceptions.py), for one document instance that a host calls            *)
(* sequentially.                                                           *)
(*                                                                         *)
(* Python values whose dynamic type the code tests (isinstance, `not x`,   *)
(* attribute access) are modelled as tagged records [py, v].               *)
(***************************************************************************)
EXTENDS Integers, Sequences, FiniteSets, TLC

VARIABLES docType, may_create_default, pk, privileges, last

vars == <<docType, may_create_default, pk, privileges, last>>

-----------------------------------------------------------------------------
(* Python values *)

\* Python's None, as a value comparable with the strings it is compared to.
None == "<None>"

Str(s) == [py |-> "str", v |-> s]

List(s) == [py |-> "list", v |-> s]

Req(r) == [py |-> "Request", v |-> r]

\* `not x` for a permission name: None and '' are false.
Falsy(x) == x = None \/ x = ""

Range(s) == {s[i] : i \in DOMAIN s}

\* list( set ): the order of the result depends on the hashes; one fixed
\* order stands for it, and nothing below reads more than membership.
PermOrder == <<"create", "update", "delete", "update_files", "update_name", "view", "admin">>

SetToList(S) == SelectSeq(PermOrder, LAMBDA p : p \in S)

-----------------------------------------------------------------------------
(* Principals and requests *)

\* A request carries request.user; the authentication policy adds the
\* user's id and its groups to the effective principals.
Requests == {[user |-> "u1", groups |-> {}], [user |-> "u2", groups |-> {"g1"}]}

effective_principals(request) == {"system.Everyone", "system.Authenticated", request.user} \cup request.groups

\* What callers pass as `principal`: a user Document (with or without a pk)
\* or a group name. u1 is granted permissions by on_change_pk alone.
Principals == {[py |-> "Document", v |-> "u2"], [py |-> "Document", v |-> None], Str("g1")}

-----------------------------------------------------------------------------
(* Document types *)

default_permissions == [create |-> "create", update |-> "update", delete |-> "delete"]

\* A document type: whether its meta has 'permissions', that mapping, its
\* may_<permission> methods and what on_change_pk grants to request.user.
\* may_create is inherited from PrivilegeMixin unless the type defines it.
SimplePrivilegedDocument == [has_permissions |-> FALSE, permissions |-> <<>>, may_methods |-> [create |-> "mixin"], on_change_pk |-> <<>>]

PrivilegedDocument == [has_permissions |-> TRUE, permissions |-> [create |-> "create", update |-> "update"], may_methods |-> [create |-> "true", update |-> "false"], on_change_pk |-> <<"view", "update">>]

Directory == [has_permissions |-> TRUE, permissions |-> [create |-> "create", update |-> "update", files |-> "update_files", name |-> "update_name", delete |-> ""], may_methods |-> [update_files |-> "count", create |-> "true", delete |-> "true"], on_change_pk |-> <<"update", "update_name">>]

File == [has_permissions |-> FALSE, permissions |-> <<>>, may_methods |-> [create |-> "true"], on_change_pk |-> <<>>]

\* A type whose mapping names the `privileges` field itself.
Vault == [has_permissions |-> TRUE, permissions |-> [create |-> "create", update |-> "update", delete |-> "delete", privileges |-> "admin"], may_methods |-> [create |-> "mixin"], on_change_pk |-> <<>>]

DocTypes == {"SimplePrivilegedDocument", "PrivilegedDocument", "Directory", "Vault"}

\* The class of a document, by name.
meta(type) ==
    CASE type = "SimplePrivilegedDocument" -> SimplePrivilegedDocument
      [] type = "PrivilegedDocument" -> PrivilegedDocument
      [] type = "Directory" -> Directory
      [] type = "File" -> File
      [] type = "Vault" -> Vault

\* get_permission_for with unknown names resolved to the `update` entry.
get_permission_for_update_fallback(type, name) ==
    LET permissions == IF meta(type).has_permissions THEN meta(type).permissions ELSE default_permissions
    IN  IF name \in DOMAIN permissions THEN permissions[name] ELSE permissions["update"]

get_permission_for(type, name) ==
    LET permissions == IF meta(type).has_permissions THEN meta(type).permissions ELSE default_permissions
    IN  IF name \in DOMAIN permissions THEN permissions[name] ELSE None

-----------------------------------------------------------------------------
(* ACL and the authorization gate *)

DENY_ALL == [action |-> "Deny", principal |-> "system.Everyone", permissions |-> <<"*">>]

\* __acl__ entries with an entry for every privilege, keyed or not.
acl_entries_unfiltered(privs) ==
    [i \in DOMAIN privs |->
        [action |-> "Allow", principal |-> IF privs[i].user # None THEN privs[i].user ELSE privs[i].group,
         permissions |-> privs[i].permissions]]

\* __acl__: one Allow per privilege whose principal is set, then DENY_ALL.
RECURSIVE acl_entries(_)
acl_entries(privs) ==
    IF privs = <<>> THEN <<>>
    ELSE LET priv == Head(privs)
             principal == IF priv.user # None THEN priv.user ELSE priv.group
         IN  (IF principal # None /\ principal # ""
              THEN <<[action |-> "Allow", principal |-> principal, permissions |-> priv.permissions]>>
              ELSE <<>>) \o acl_entries(Tail(privs))

\* __acl__ with the group privileges left out.
acl_users_only(privs) == acl_entries(SelectSeq(privs, LAMBDA priv : priv.user # None)) \o <<DENY_ALL>>

acl(privs) == acl_entries(privs) \o <<DENY_ALL>>

\* ACLAuthorizationPolicy.permits: first matching entry decides, default deny.
RECURSIVE permits(_, _, _)
permits(aces, principals, permission) ==
    IF aces = <<>> THEN FALSE
    ELSE LET ace == Head(aces)
         IN  IF /\ ace.principal \in principals
                /\ (permission \in Range(ace.permissions) \/ ace.permissions = <<"*">>)
             THEN ace.action = "Allow"
             ELSE permits(Tail(aces), principals, permission)

has_permission(permission, privs, request) == permits(acl(privs), effective_principals(request), permission)

\* may_<permission> methods with the inherited may_create allowing always.
may_method_ignoring_flag(kind, flag) == kind # "false"

\* The result of a may_<permission> method.
may_method(kind, flag) ==
    CASE kind = "true" -> TRUE
      [] kind = "count" -> TRUE
      [] kind = "false" -> FALSE
      [] kind = "mixin" -> flag

\* may without the early return for an empty permission.
may_without_empty_check(doc, flag, request, permission) ==
    IF permission \in DOMAIN meta(doc.type).may_methods
    THEN [result |-> may_method(meta(doc.type).may_methods[permission], flag),
          calls |-> <<[call |-> "may_method", name |-> permission, on |-> doc.type]>>]
    ELSE [result |-> has_permission(permission, doc.privileges, request),
          calls |-> <<[call |-> "has_permission", name |-> permission, on |-> doc.type]>>]

\* may with the ACL consulted besides the may_<permission> method.
may_method_or_acl(doc, flag, request, permission) ==
    IF Falsy(permission)
    THEN [result |-> TRUE, calls |-> <<>>]
    ELSE IF permission \in DOMAIN meta(doc.type).may_methods
         THEN [result |-> \/ may_method(meta(doc.type).may_methods[permission], flag)
                          \/ has_permission(permission, doc.privileges, request),
               calls |-> <<[call |-> "may_method", name |-> permission, on |-> doc.type],
                           [call |-> "has_permission", name |-> permission, on |-> doc.type]>>]
         ELSE [result |-> has_permission(permission, doc.privileges, request),
               calls |-> <<[call |-> "has_permission", name |-> permission, on |-> doc.type]>>]

\* may deciding on the ACL the document had when it was constructed.
may_on_initial_acl(doc, flag, request, permission) ==
    IF Falsy(permission)
    THEN [result |-> TRUE, calls |-> <<>>]
    ELSE IF permission \in DOMAIN meta(doc.type).may_methods
         THEN [result |-> may_method(meta(doc.type).may_methods[permission], flag),
               calls |-> <<[call |-> "may_method", name |-> permission, on |-> doc.type]>>]
         ELSE [result |-> has_permission(permission, <<>>, request),
               calls |-> <<[call |-> "has_permission", name |-> permission, on |-> doc.type]>>]

\* may: the decision and what it called. `doc` is [type, privileges, pk].
may(doc, flag, request, permission) ==
    IF Falsy(permission)
    THEN [result |-> TRUE, calls |-> <<>>]
    ELSE IF permission \in DOMAIN meta(doc.type).may_methods
         THEN [result |-> may_method(meta(doc.type).may_methods[permission], flag),
               calls |-> <<[call |-> "may_method", name |-> permission, on |-> doc.type]>>]
         ELSE [result |-> has_permission(permission, doc.privileges, request),
               calls |-> <<[call |-> "has_permission", name |-> permission, on |-> doc.type]>>]

-----------------------------------------------------------------------------
(* PermissionError *)

NoError == [exc |-> "none", attribute_name |-> None, permission |-> None]

\* PermissionError.__init__( self, request, attribute_name, permission='?' ):
\* the message is built, then request.user.id is read for the log line. A
\* first argument without a `user` attribute ends the constructor with an
\* AttributeError, which is what the raise statement then propagates.
PermissionError(request, attribute_name, permission) ==
    IF request.py = "Request"
    THEN [exc |-> "PermissionError", attribute_name |-> attribute_name.v, permission |-> permission.v]
    ELSE [exc |-> "AttributeError", attribute_name |-> None, permission |-> None]

-----------------------------------------------------------------------------
(* Privilege *)

\* isinstance( permissions, basestring ): a single string is one permission.
aslist(permissions) == IF permissions.py = "str" THEN <<permissions.v>> ELSE permissions.v

Privilege_set(self, permissions) == [self EXCEPT !.permissions = aslist(permissions)]

\* Privilege.add assigning the permissions instead of uniting them.
Privilege_add_assign(self, permissions) == [self EXCEPT !.permissions = SetToList(Range(aslist(permissions)))]

Privilege_add(self, permissions) == [self EXCEPT !.permissions = SetToList(Range(self.permissions) \cup Range(aslist(permissions)))]

Privilege_remove(self, permissions) == [self EXCEPT !.permissions = SetToList(Range(self.permissions) \ Range(aslist(permissions)))]

-----------------------------------------------------------------------------
(* The privilege list *)

\* The condition of the scan in get_privilege.
matches(priv, principal) ==
    \/ principal.py = "str" /\ priv.group = principal.v
    \/ principal.py = "Document" /\ principal.v # None /\ principal.v = priv.user

\* get_privilege without the scan: with `create` a privilege is always appended.
get_privilege_always_append(privs, principal, create) ==
    LET user == IF principal.py = "Document" THEN principal.v ELSE None
        group == IF principal.py = "str" THEN principal.v ELSE None
    IN  IF ~create
        THEN [raised |-> NoError, privileges |-> privs, index |-> 0]
        ELSE IF user = None /\ Falsy(group)
             THEN [raised |-> [exc |-> "AttributeError", attribute_name |-> None, permission |-> None],
                   privileges |-> privs, index |-> 0]
             ELSE [raised |-> NoError,
                   privileges |-> Append(privs, [user |-> user, group |-> group, permissions |-> <<>>]),
                   index |-> Len(privs) + 1]

\* get_privilege: [raised, privileges, index]; index 0 is the absent result.
get_privilege(privs, principal, create) ==
    LET found == {i \in DOMAIN privs : matches(privs[i], principal)}
        first == IF found = {} THEN 0 ELSE CHOOSE i \in found : \A j \in found : i <= j
        user == IF principal.py = "Document" THEN principal.v ELSE None
        group == IF principal.py = "str" THEN principal.v ELSE None
    IN  IF first # 0 \/ ~create
        THEN [raised |-> NoError, privileges |-> privs, index |-> first]
        ELSE IF user = None /\ Falsy(group)
             THEN [raised |-> [exc |-> "AttributeError", attribute_name |-> None, permission |-> None],
                   privileges |-> privs, index |-> 0]
             ELSE [raised |-> NoError,
                   privileges |-> Append(privs, [user |-> user, group |-> group, permissions |-> <<>>]),
                   index |-> Len(privs) + 1]

set_permissions(privs, permissions, principal) ==
    LET g == get_privilege(privs, principal, TRUE)
    IN  IF g.raised # NoError THEN [raised |-> g.raised, privileges |-> privs]
        ELSE [raised |-> NoError,
              privileges |-> [g.privileges EXCEPT ![g.index] = Privilege_set(@, permissions)]]

add_permissions(privs, permissions, principal) ==
    LET g == get_privilege(privs, principal, TRUE)
    IN  IF g.raised # NoError THEN [raised |-> g.raised, privileges |-> privs]
        ELSE [raised |-> NoError,
              privileges |-> [g.privileges EXCEPT ![g.index] = Privilege_add(@, permissions)]]

remove_permissions(privs, permissions, principal) ==
    LET g == get_privilege(privs, principal, FALSE)
    IN  IF g.index = 0 THEN [raised |-> NoError, privileges |-> privs]
        ELSE [raised |-> NoError,
              privileges |-> [privs EXCEPT ![g.index] = Privilege_remove(@, permissions)]]

\* remove_privilege detaching the last privilege of the list.
remove_privilege_last(privs, principal) ==
    IF privs = <<>> THEN privs ELSE SubSeq(privs, 1, Len(privs) - 1)

remove_privilege(privs, principal) ==
    LET g == get_privilege(privs, principal, FALSE)
    IN  IF g.index = 0 THEN privs
        ELSE SubSeq(privs, 1, g.index - 1) \o SubSeq(privs, g.index + 1, Len(privs))

clear_privileges(privs) == <<>>

-----------------------------------------------------------------------------
(* Guarded operations: what one call does, as [raised, persisted, calls]   *)
(* (plus the document's fields where the call changes them). `persisted`   *)
(* lists the calls made to the persistence layer, in order.                *)

NoneValue == [py |-> "NoneType", v |-> None]

\* update without the check of caller_permission on the caller.
update_without_caller_check(self, flag, request, field_name, caller, caller_permission) ==
    LET permission == get_permission_for(self.type, IF field_name = None THEN "update" ELSE field_name)
        m == may(self, flag, request, permission)
    IN  IF m.result
        THEN [raised |-> NoError, persisted |-> <<[op |-> "update", field |-> field_name]>>, calls |-> m.calls]
        ELSE [raised |-> PermissionError(Str("update"), Str(permission), Str("?")),
              persisted |-> <<>>, calls |-> m.calls]

\* update( self, request, field_name, caller, caller_permission ), with
\* `caller` already defaulted to self. The AttributeError of line 102 is
\* built and dropped, so an unknown field changes nothing.
update(self, flag, request, field_name, caller, caller_permission) ==
    LET whole == may(self, flag, request, get_permission_for(self.type, "update"))
        c == may(caller, flag, request, caller_permission)
        checked == IF Falsy(caller_permission) THEN <<>> ELSE c.calls
        permission == get_permission_for(self.type, field_name)
        m == may(self, flag, request, permission)
    IN  IF field_name = None
        THEN IF whole.result
             THEN [raised |-> NoError, persisted |-> <<[op |-> "update", field |-> None]>>, calls |-> whole.calls]
             ELSE [raised |-> PermissionError(Str("update"), Str(get_permission_for(self.type, "update")), Str("?")),
                   persisted |-> <<>>, calls |-> whole.calls]
        ELSE IF ~Falsy(caller_permission) /\ ~c.result
             THEN [raised |-> PermissionError(Str("update_" \o field_name), Str(caller_permission), Str("?")),
                   persisted |-> <<>>, calls |-> checked]
             ELSE IF m.result
                  THEN [raised |-> NoError, persisted |-> <<[op |-> "update", field |-> field_name]>>,
                        calls |-> checked \o m.calls]
                  ELSE [raised |-> PermissionError(Str("update"), Str(permission), Str("?")),
                        persisted |-> <<>>, calls |-> checked \o m.calls]

update_privileges(self, flag, request, caller) == update(self, flag, request, "privileges", caller, "update")

delete(self, flag, request) ==
    LET permission == get_permission_for(self.type, "delete")
        m == may(self, flag, request, permission)
    IN  IF m.result
        THEN [raised |-> NoError, persisted |-> <<[op |-> "delete", field |-> None]>>, calls |-> m.calls]
        ELSE [raised |-> PermissionError(Str("delete"), Str(permission), Str("?")),
              persisted |-> <<>>, calls |-> m.calls]

\* The loop of save over the changed fields, in the order the set yields them;
\* the first update that raises ends it.
RECURSIVE save_fields(_, _, _, _, _)
save_fields(self, flag, request, changed_fields, permission) ==
    IF changed_fields = <<>>
    THEN [raised |-> NoError, persisted |-> <<>>, calls |-> <<>>]
    ELSE LET relation == Head(changed_fields)
             p == get_permission_for(self.type, relation)
             perm == IF p = None THEN permission ELSE p
             u == update(self, flag, request, relation, self, perm)
             rest == save_fields(self, flag, request, Tail(changed_fields), permission)
         IN  IF u.raised # NoError THEN u
             ELSE [raised |-> rest.raised, persisted |-> u.persisted \o rest.persisted,
                   calls |-> u.calls \o rest.calls]

NewPk == "d1"

\* save running the loop over the changed fields also when may allowed the
\* whole document.
save_checking_fields(self, flag, request, changed_fields) ==
    LET permission == get_permission_for(self.type, IF self.pk = None THEN "create" ELSE "update")
        m == may(self, flag, request.v, permission)
        hook == meta(self.type).on_change_pk
        granted == IF self.pk = None /\ hook # <<>>
                   THEN set_permissions(self.privileges, List(hook), [py |-> "Document", v |-> request.v.user]).privileges
                   ELSE self.privileges
        f == save_fields(self, flag, request.v, changed_fields, permission)
    IN  IF request.py # "Request"
        THEN [raised |-> [exc |-> "ValueError", attribute_name |-> None, permission |-> None],
              persisted |-> <<>>, calls |-> <<>>, pk |-> self.pk, privileges |-> self.privileges]
        ELSE IF m.result
             THEN [raised |-> NoError, persisted |-> <<[op |-> "save", field |-> None]>>,
                   calls |-> IF self.pk = None THEN m.calls ELSE m.calls \o f.calls,
                   pk |-> IF self.pk = None THEN NewPk ELSE self.pk, privileges |-> granted]
             ELSE IF self.pk # None
                  THEN [raised |-> f.raised, persisted |-> f.persisted, calls |-> m.calls \o f.calls,
                        pk |-> self.pk, privileges |-> self.privileges]
                  ELSE [raised |-> PermissionError(Str("save"), Str(permission), Str("?")),
                        persisted |-> <<>>, calls |-> m.calls, pk |-> self.pk, privileges |-> self.privileges]

\* save( self, request ): [raised, persisted, calls, pk, privileges]. `self`
\* is [type, privileges, pk]. The persistence save gives a new document its
\* pk, and the pk change runs the type's on_change_pk.
save(self, flag, request, changed_fields) ==
    LET permission == get_permission_for(self.type, IF self.pk = None THEN "create" ELSE "update")
        m == may(self, flag, request.v, permission)
        hook == meta(self.type).on_change_pk
        granted == IF self.pk = None /\ hook # <<>>
                   THEN set_permissions(self.privileges, List(hook), [py |-> "Document", v |-> request.v.user]).privileges
                   ELSE self.privileges
        f == save_fields(self, flag, request.v, changed_fields, permission)
    IN  IF request.py # "Request"
        THEN [raised |-> [exc |-> "ValueError", attribute_name |-> None, permission |-> None],
              persisted |-> <<>>, calls |-> <<>>, pk |-> self.pk, privileges |-> self.privileges]
        ELSE IF m.result
             THEN [raised |-> NoError, persisted |-> <<[op |-> "save", field |-> None]>>, calls |-> m.calls,
                   pk |-> IF self.pk = None THEN NewPk ELSE self.pk, privileges |-> granted]
             ELSE IF self.pk # None
                  THEN [raised |-> f.raised, persisted |-> f.persisted, calls |-> m.calls \o f.calls,
                        pk |-> self.pk, privileges |-> self.privileges]
                  ELSE [raised |-> PermissionError(Str("save"), Str(permission), Str("?")),
                        persisted |-> <<>>, calls |-> m.calls, pk |-> self.pk, privileges |-> self.privileges]

\* grant and revoke: [raised, persisted, calls, privileges]. `caller` is
\* NoneValue or another document; update_privileges defaults it to self,
\* which by then carries the changed privileges.
grant(self, flag, request, permissions, principal, caller) ==
    LET m == may(self, flag, request, get_permission_for(self.type, "update"))
        a == add_permissions(self.privileges, permissions, principal)
        changed == [self EXCEPT !.privileges = a.privileges]
        u == update_privileges(changed, flag, request, IF caller.py = "NoneType" THEN changed ELSE caller.v)
    IN  IF ~m.result
        THEN [raised |-> NoError, persisted |-> <<>>, calls |-> m.calls, privileges |-> self.privileges]
        ELSE IF a.raised # NoError
             THEN [raised |-> a.raised, persisted |-> <<>>, calls |-> m.calls, privileges |-> self.privileges]
             ELSE [raised |-> u.raised, persisted |-> u.persisted, calls |-> m.calls \o u.calls,
                   privileges |-> a.privileges]

revoke(self, flag, request, permissions, principal, caller) ==
    LET m == may(self, flag, request, get_permission_for(self.type, "update"))
        a == remove_permissions(self.privileges, permissions, principal)
        changed == [self EXCEPT !.privileges = a.privileges]
        u == update_privileges(changed, flag, request, IF caller.py = "NoneType" THEN changed ELSE caller.v)
    IN  IF ~m.result
        THEN [raised |-> NoError, persisted |-> <<>>, calls |-> m.calls, privileges |-> self.privileges]
        ELSE [raised |-> u.raised, persisted |-> u.persisted, calls |-> m.calls \o u.calls,
              privileges |-> a.privileges]

-----------------------------------------------------------------------------
(* The document and the calls made on it *)

\* Another document, passed as `caller`: a File on which u1 may update.
OtherDocs == {[type |-> "File", privileges |-> <<[user |-> "u1", group |-> None, permissions |-> <<"update">>]>>, pk |-> "f1"]}

Callers == {NoneValue} \cup {[py |-> "Document", v |-> d] : d \in OtherDocs}

RequestArgs == {Req(r) : r \in Requests}

FieldNames == {"name", "files", "privileges", "bogus"}

\* The most fields one save finds changed.
MaxChanged == 2

TrackedFields == {"name", "files", "privileges"}

\* get_changed_fields(): a set of field names; the loop of save visits it in
\* an order the set decides, so every order of every subset is an input.
ChangedFields == {s \in UNION {[1..n -> TrackedFields] : n \in 0..MaxChanged} : \A i, j \in DOMAIN s : i # j => s[i] # s[j]}

CallerPermissions == {"update", "", "delete"}

PermissionArgs == {Str("update"), List(<<"delete", "update_files">>)}

PermissionNames == {"create", "update", "delete", "update_files", "view", "", None}

ActionNames == {"create", "update", "delete", "name", "files", "privileges", "view"}

NoCall == [op |-> "none"]

Self == [type |-> docType, privileges |-> privileges, pk |-> pk]

Idle == last.op = "none"

Init ==
    /\ docType \in DocTypes
    /\ may_create_default \in BOOLEAN
    /\ pk = None
    /\ privileges = <<>>
    /\ last = NoCall

Save(request, changed_fields) ==
    /\ Idle
    /\ LET out == save(Self, may_create_default, request, changed_fields)
       IN  /\ pk' = out.pk
           /\ privileges' = out.privileges
           /\ last' = [op |-> "save", args |-> [request |-> request, changed_fields |-> changed_fields],
                       pre |-> Self, out |-> out]
    /\ UNCHANGED <<docType, may_create_default>>

Update(request, field_name, caller, caller_permission) ==
    /\ Idle
    /\ LET out == update(Self, may_create_default, request.v, field_name,
                         IF caller.py = "NoneType" THEN Self ELSE caller.v, caller_permission)
       IN  last' = [op |-> "update",
                    args |-> [request |-> request, field_name |-> field_name, caller |-> caller,
                              caller_permission |-> caller_permission],
                    pre |-> Self, out |-> out]
    /\ UNCHANGED <<docType, may_create_default, pk, privileges>>

UpdatePrivileges(request, caller) ==
    /\ Idle
    /\ LET out == update_privileges(Self, may_create_default, request.v,
                                    IF caller.py = "NoneType" THEN Self ELSE caller.v)
       IN  last' = [op |-> "update_privileges", args |-> [request |-> request, caller |-> caller],
                    pre |-> Self, out |-> out]
    /\ UNCHANGED <<docType, may_create_default, pk, privileges>>

Delete(request) ==
    /\ Idle
    /\ last' = [op |-> "delete", args |-> [request |-> request], pre |-> Self,
                out |-> delete(Self, may_create_default, request.v)]
    /\ UNCHANGED <<docType, may_create_default, pk, privileges>>

Grant(request, permissions, principal, caller) ==
    /\ Idle
    /\ LET out == grant(Self, may_create_default, request.v, permissions, principal, caller)
       IN  /\ privileges' = out.privileges
           /\ last' = [op |-> "grant",
                       args |-> [request |-> request, permissions |-> permissions,
                                 principal |-> principal, caller |-> caller],
                       pre |-> Self, out |-> out]
    /\ UNCHANGED <<docType, may_create_default, pk>>

Revoke(request, permissions, principal, caller) ==
    /\ Idle
    /\ LET out == revoke(Self, may_create_default, request.v, permissions, principal, caller)
       IN  /\ privileges' = out.privileges
           /\ last' = [op |-> "revoke",
                       args |-> [request |-> request, permissions |-> permissions,
                                 principal |-> principal, caller |-> caller],
                       pre |-> Self, out |-> out]
    /\ UNCHANGED <<docType, may_create_default, pk>>

SetPermissions(permissions, principal) ==
    /\ Idle
    /\ LET out == set_permissions(privileges, permissions, principal)
       IN  /\ privileges' = out.privileges
           /\ last' = [op |-> "set_permissions", args |-> [permissions |-> permissions, principal |-> principal],
                       pre |-> Self, out |-> out]
    /\ UNCHANGED <<docType, may_create_default, pk>>

AddPermissions(permissions, principal) ==
    /\ Idle
    /\ LET out == add_permissions(privileges, permissions, principal)
       IN  /\ privileges' = out.privileges
           /\ last' = [op |-> "add_permissions", args |-> [permissions |-> permissions, principal |-> principal],
                       pre |-> Self, out |-> out]
    /\ UNCHANGED <<docType, may_create_default, pk>>

RemovePermissions(permissions, principal) ==
    /\ Idle
    /\ LET out == remove_permissions(privileges, permissions, principal)
       IN  /\ privileges' = out.privileges
           /\ last' = [op |-> "remove_permissions", args |-> [permissions |-> permissions, principal |-> principal],
                       pre |-> Self, out |-> out]
    /\ UNCHANGED <<docType, may_create_default, pk>>

GetPrivilege(principal, create) ==
    /\ Idle
    /\ LET out == get_privilege(privileges, principal, create)
       IN  /\ privileges' = out.privileges
           /\ last' = [op |-> "get_privilege", args |-> [principal |-> principal, create |-> create],
                       pre |-> Self, out |-> out]
    /\ UNCHANGED <<docType, may_create_default, pk>>

RemovePrivilege(principal) ==
    /\ Idle
    /\ privileges' = remove_privilege(privileges, principal)
    /\ last' = [op |-> "remove_privilege", args |-> [principal |-> principal], pre |-> Self,
                out |-> [raised |-> NoError]]
    /\ UNCHANGED <<docType, may_create_default, pk>>

ClearPrivileges ==
    /\ Idle
    /\ privileges' = clear_privileges(privileges)
    /\ last' = [op |-> "clear_privileges", args |-> <<>>, pre |-> Self, out |-> [raised |-> NoError]]
    /\ UNCHANGED <<docType, may_create_default, pk>>

May(request, permission) ==
    /\ Idle
    /\ last' = [op |-> "may", args |-> [request |-> request, permission |-> permission], pre |-> Self,
                out |-> may(Self, may_create_default, request.v, permission)]
    /\ UNCHANGED <<docType, may_create_default, pk, privileges>>

GetPermissionFor(name) ==
    /\ Idle
    /\ last' = [op |-> "get_permission_for", args |-> [name |-> name], pre |-> Self,
                out |-> [result |-> get_permission_for(docType, name)]]
    /\ UNCHANGED <<docType, may_create_default, pk, privileges>>

\* The host reads the __acl__ property.
ReadAcl ==
    /\ Idle
    /\ last' = [op |-> "__acl__", args |-> <<>>, pre |-> Self, out |-> [result |-> acl(privileges)]]
    /\ UNCHANGED <<docType, may_create_default, pk, privileges>>

\* The call has returned or raised; the host makes its next call.
Return ==
    /\ ~Idle
    /\ last' = NoCall
    /\ UNCHANGED <<docType, may_create_default, pk, privileges>>

Next ==
    \/ \E request \in RequestArgs \cup {NoneValue}, changed_fields \in ChangedFields : Save(request, changed_fields)
    \/ \E request \in RequestArgs, field_name \in FieldNames \cup {None}, caller \in Callers,
          caller_permission \in CallerPermissions : Update(request, field_name, caller, caller_permission)
    \/ \E request \in RequestArgs, caller \in Callers : UpdatePrivileges(request, caller)
    \/ \E request \in RequestArgs : Delete(request)
    \/ \E request \in RequestArgs, permissions \in PermissionArgs, principal \in Principals, caller \in Callers :
          Grant(request, permissions, principal, caller)
    \/ \E request \in RequestArgs, permissions \in PermissionArgs, principal \in Principals, caller \in Callers :
          Revoke(request, permissions, principal, caller)
    \/ \E permissions \in PermissionArgs, principal \in Principals : SetPermissions(permissions, principal)
    \/ \E permissions \in PermissionArgs, principal \in Principals : AddPermissions(permissions, principal)
    \/ \E permissions \in PermissionArgs, principal \in Principals : RemovePermissions(permissions, principal)
    \/ \E principal \in Principals, create \in BOOLEAN : GetPrivilege(principal, create)
    \/ \E principal \in Principals : RemovePrivilege(principal)
    \/ ClearPrivileges
    \/ \E request \in RequestArgs, permission \in PermissionNames : May(request, permission)
    \/ \E name \in ActionNames : GetPermissionFor(name)
    \/ ReadAcl
    \/ Return

Spec == Init /\ [][Next]_vars

-----------------------------------------------------------------------------
(* __acl__ on privilege lists as a host can assemble them: Privilege      *)
(* objects built directly and appended to the `privileges` list field.    *)

\* The longest privilege list handed to __acl__.
MaxAclLen == 3

\* Privilege( user=..., group=..., permissions=... ): user-backed, group-backed,
\* with both set, with neither, and with an empty group name.
AclPrivileges ==
    {[user |-> "u1", group |-> None, permissions |-> <<"update">>],
     [user |-> "u2", group |-> None, permissions |-> <<"view", "update">>],
     [user |-> None, group |-> "g1", permissions |-> <<"view">>],
     [user |-> "u1", group |-> "g1", permissions |-> <<>>],
     [user |-> None, group |-> None, permissions |-> <<"update">>],
     [user |-> None, group |-> "", permissions |-> <<"view">>]}

AclLists == UNION {[1..n -> AclPrivileges] : n \in 0..MaxAclLen}

AclInit ==
    /\ docType = "SimplePrivilegedDocument"
    /\ may_create_default = TRUE
    /\ pk = None
    /\ privileges \in AclLists
    /\ last = NoCall

AclNext == ReadAcl \/ Return

AclSpec == AclInit /\ [][AclNext]_vars

-----------------------------------------------------------------------------
(* may on documents whose privilege list holds grants of 'create' *)

\* The longest privilege list of a document may is asked about.
MaxGrants == 2

\* Privileges as set_permissions leaves them, one per principal.
CreatePrivileges ==
    {[user |-> "u1", group |-> None, permissions |-> <<"create">>],
     [user |-> "u2", group |-> None, permissions |-> <<"update">>],
     [user |-> None, group |-> "g1", permissions |-> <<"create", "update">>]}

CreateLists ==
    {l \in UNION {[1..n -> CreatePrivileges] : n \in 0..MaxGrants} : \A i, j \in DOMAIN l : l[i] = l[j] => i = j}

MayInit ==
    /\ docType \in DocTypes
    /\ may_create_default \in BOOLEAN
    /\ pk = None
    /\ privileges \in CreateLists
    /\ last = NoCall

MayNext ==
    \/ \E request \in RequestArgs, permission \in PermissionNames : May(request, permission)
    \/ Return

MaySpec == MayInit /\ [][MayNext]_vars

-----------------------------------------------------------------------------
(* One Privilege and the calls of its set, add and remove methods *)

\* The longest permission list a Privilege starts with or is handed.
MaxPerms == 2

PermissionPool == {"view", "create", "update"}

PermissionLists == UNION {[1..n -> PermissionPool] : n \in 0..MaxPerms}

\* `permissions`: one string, or a list of strings.
PermissionInputs == {Str(p) : p \in PermissionPool} \cup {List(l) : l \in PermissionLists}

\* Privilege( user=self.request.user.id ), with permissions as the host set them.
PrivilegeInit ==
    /\ docType = "SimplePrivilegedDocument"
    /\ may_create_default = TRUE
    /\ pk = None
    /\ \E l \in PermissionLists : privileges = <<[user |-> "u1", group |-> None, permissions |-> l]>>
    /\ last = NoCall

PrivilegeSet(permissions) ==
    /\ Idle
    /\ privileges' = <<Privilege_set(privileges[1], permissions)>>
    /\ last' = [op |-> "Privilege.set", args |-> [permissions |-> permissions], pre |-> Self,
                out |-> [raised |-> NoError]]
    /\ UNCHANGED <<docType, may_create_default, pk>>

PrivilegeAdd(permissions) ==
    /\ Idle
    /\ privileges' = <<Privilege_add(privileges[1], permissions)>>
    /\ last' = [op |-> "Privilege.add", args |-> [permissions |-> permissions], pre |-> Self,
                out |-> [raised |-> NoError]]
    /\ UNCHANGED <<docType, may_create_default, pk>>

PrivilegeRemove(permissions) ==
    /\ Idle
    /\ privileges' = <<Privilege_remove(privileges[1], permissions)>>
    /\ last' = [op |-> "Privilege.remove", args |-> [permissions |-> permissions], pre |-> Self,
                out |-> [raised |-> NoError]]
    /\ UNCHANGED <<docType, may_create_default, pk>>

PrivilegeNext ==
    \/ \E permissions \in PermissionInputs : PrivilegeSet(permissions)
    \/ \E permissions \in PermissionInputs : PrivilegeAdd(permissions)
    \/ \E permissions \in PermissionInputs : PrivilegeRemove(permissions)
    \/ Return

PrivilegeSpec == PrivilegeInit /\ [][PrivilegeNext]_vars

-----------------------------------------------------------------------------
(* Reading the last call *)

\* The fields handed to the persistence update by the last call.
PersistedFields == {last.out.persisted[i].field : i \in {j \in DOMAIN last.out.persisted : last.out.persisted[j].op = "update"}}

PersistenceCalled(op) == \E i \in DOMAIN last.out.persisted : last.out.persisted[i].op = op

\* What may decides for the caller of the last call, on the document as it was
\* when the call began.
MayBefore(permission) == may(last.pre, may_create_default, last.args.request.v, permission).result

\* The document's ACL, as it was when the call began, grants `permission`.
GrantedBefore(permission) == has_permission(permission, last.pre.privileges, last.args.request.v)

\* How often the last call ran the method may_<permission>.
MayMethodCalls(permission) == Cardinality({i \in DOMAIN last.out.calls : last.out.calls[i].call = "may_method" /\ last.out.calls[i].name = permission})

DefaultCaller == last.args.caller.py = "NoneType"

ExplicitMapping == meta(docType).has_permissions

-----------------------------------------------------------------------------
(* Claims *)

\* C1: a save on a persisted document by a principal who is denied the
\* whole-document update permission is all-or-nothing: if the check of one
\* changed field denies, no changed field was handed to the persistence update.
C1_SaveAllOrNothing ==
    (/\ last.op = "save"
     /\ last.args.request.py = "Request"
     /\ last.pre.pk # None
     /\ ~MayBefore(get_permission_for(docType, "update"))
     /\ last.out.raised # NoError)
    => PersistedFields = {}

\* C2: when P holds `update` only through P's own grant, revoke(P's request,
\* 'update', P) raises nothing, hands the privileges to persistence, and P
\* may no longer update.
C2_RevokeOwnUpdate ==
    (/\ last.op = "revoke"
     /\ DefaultCaller
     /\ last.args.permissions = Str("update")
     /\ last.args.principal = [py |-> "Document", v |-> last.args.request.v.user]
     /\ "update" \notin DOMAIN meta(docType).may_methods
     /\ get_permission_for(docType, "update") = "update"
     /\ GrantedBefore("update")
     /\ ~has_permission("update", remove_privilege(last.pre.privileges, last.args.principal), last.args.request.v))
    => /\ last.out.raised = NoError
       /\ PersistedFields = {"privileges"}
       /\ ~may(Self, may_create_default, last.args.request.v, "update").result

\* C3: delete calls the persistence delete exactly when may allows the
\* permission resolved for 'delete'; when may denies, it raises the
\* authorization error and the persistence delete is not called.
C3_DeleteGate ==
    (last.op = "delete" /\ last.pre.pk # None)
    => /\ PersistenceCalled("delete") <=> MayBefore(get_permission_for(docType, "delete"))
       /\ ~MayBefore(get_permission_for(docType, "delete"))
            => last.out.raised.exc = "PermissionError" /\ last.out.persisted = <<>>

\* C4: update(request, F) for a field F mapped to permission p hands F to the
\* persistence update only if may(request, p) holds; if may denies p, update
\* raises the authorization error and persists nothing.
C4_MappedFieldGate ==
    (/\ last.op = "update"
     /\ last.pre.pk # None
     /\ DefaultCaller
     /\ last.args.caller_permission = "update"
     /\ last.args.field_name # None
     /\ ExplicitMapping
     /\ last.args.field_name \in DOMAIN meta(docType).permissions)
    => /\ last.args.field_name \in PersistedFields => MayBefore(get_permission_for(docType, last.args.field_name))
       /\ ~MayBefore(get_permission_for(docType, last.args.field_name))
            => last.out.raised.exc = "PermissionError" /\ last.out.persisted = <<>>

\* C5: a principal granted the permission mapped to `files` ('update_files')
\* and not 'update' can update `files` through update(request, 'files'): the
\* call persists the field and runs may_update_files exactly once.
C5_FieldPermissionSuffices ==
    (/\ last.op = "update"
     /\ docType = "Directory"
     /\ last.pre.pk # None
     /\ last.args.field_name = "files"
     /\ DefaultCaller
     /\ last.args.caller_permission = "update"
     /\ GrantedBefore("update_files")
     /\ ~GrantedBefore("update"))
    => /\ last.out.raised = NoError
       /\ PersistedFields = {"files"}
       /\ MayMethodCalls("update_files") = 1

C7_UpdatePrivilegesBypassesMapping ==
    (/\ last.op \in {"update_privileges", "grant"}
     /\ last.pre.pk # None
     /\ DefaultCaller
     /\ last.op = "grant" => last.args.principal.v # None
     /\ MayBefore(get_permission_for(docType, "update"))
     /\ MayBefore("update"))
    => last.out.raised = NoError /\ PersistedFields = {"privileges"}

\* C8: in a type whose explicit mapping omits create, update or delete, the
\* omitted action resolves through the default table, so a delete needs the
\* 'delete' permission.
C8_OmittedActionFallsBack ==
    /\ (/\ last.op = "get_permission_for"
         /\ ExplicitMapping
         /\ last.args.name \in DOMAIN default_permissions
         /\ last.args.name \notin DOMAIN meta(docType).permissions)
        => last.out.result = default_permissions[last.args.name]
    /\ (/\ last.op = "delete"
         /\ ExplicitMapping
         /\ "delete" \notin DOMAIN meta(docType).permissions
         /\ last.pre.pk # None
         /\ PersistenceCalled("delete"))
        => MayBefore("delete")

\* C9: without an explicit mapping, get_permission_for gives 'create',
\* 'update', 'delete' for those actions and None for every other name.
C9_DefaultTable ==
    (last.op = "get_permission_for" /\ ~ExplicitMapping)
    => last.out.result = (IF last.args.name \in {"create", "update", "delete"} THEN last.args.name ELSE None)

\* C9 witness: a name outside the default table resolved on a type without
\* a mapping.
C9_Witness ==
    /\ last.op = "get_permission_for"
    /\ docType = "SimplePrivilegedDocument"
    /\ last.args.name = "files"
    /\ last.out.result = None

\* C10: may(request, '') and may(request, None) are true without running a
\* may_* method or reading the ACL; a delete mapped to '' is always allowed
\* and never runs may_delete.
C10_EmptyPermissionAllowed ==
    /\ (last.op = "may" /\ Falsy(last.args.permission))
        => last.out.result /\ last.out.calls = <<>>
    /\ (last.op = "delete" /\ get_permission_for(docType, "delete") = "")
        => /\ last.out.raised = NoError
           /\ PersistenceCalled("delete")
           /\ MayMethodCalls("delete") = 0
           /\ last.out.calls = <<>>

\* C10 witness: a delete mapped to '' by a principal the ACL grants nothing,
\* on a type that has a may_delete method.
C10_Witness ==
    /\ last.op = "delete"
    /\ last.pre.pk # None
    /\ get_permission_for(docType, "delete") = ""
    /\ "delete" \in DOMAIN meta(docType).may_methods
    /\ ~GrantedBefore("delete")
    /\ PersistenceCalled("delete")

\* Some privilege of the list, for the request's user or for one of the
\* user's groups, holds `permission`.
HoldsGrant(privs, request, permission) ==
    \E i \in DOMAIN privs :
        /\ permission \in Range(privs[i].permissions)
        /\ privs[i].user = request.user \/ privs[i].group \in request.groups

HasMayMethod(permission) == permission \in DOMAIN meta(docType).may_methods

\* C11: when the type defines may_<p> for a non-empty p, may(request, p) is
\* the method's result for every privilege list and request, and the ACL is
\* not consulted: a grant of p does not turn False into True, a missing
\* grant does not turn True into False.
C11_OverrideReplacesAcl ==
    (last.op = "may" /\ ~Falsy(last.args.permission) /\ HasMayMethod(last.args.permission))
    => /\ last.out.result = may_method(meta(docType).may_methods[last.args.permission], may_create_default)
       /\ last.out.calls = <<[call |-> "may_method", name |-> last.args.permission, on |-> docType]>>
       /\ (docType = "PrivilegedDocument" /\ last.args.permission = "update") => ~last.out.result
       /\ (docType = "Directory" /\ last.args.permission = "delete") => last.out.result

\* C11 witness: may_update returns False although the ACL grants 'update'
\* to the caller.
C11_Witness ==
    /\ last.op = "may"
    /\ docType = "PrivilegedDocument"
    /\ last.args.permission = "update"
    /\ HoldsGrant(privileges, last.args.request.v, "update")
    /\ ~last.out.result

\* C12: for a non-empty permission p without a may_<p> method, may(request,
\* p) is true exactly when the privilege list holds a Privilege, for the
\* request's user or for a group of the user, whose permissions contain p.
C12_AclDecides ==
    (last.op = "may" /\ ~Falsy(last.args.permission) /\ ~HasMayMethod(last.args.permission))
    => (last.out.result <=> HoldsGrant(last.pre.privileges, last.args.request.v, last.args.permission))

\* C12 witness: a permission held through a group grant alone is allowed.
C12_Witness ==
    /\ last.op = "may"
    /\ ~HasMayMethod(last.args.permission)
    /\ last.out.result
    /\ \A i \in DOMAIN privileges : privileges[i].user # last.args.request.v.user

\* The key __acl__ gives a privilege: the user's identity, else the group.
PrincipalKey(priv) == IF priv.user # None THEN priv.user ELSE priv.group

Keyed(privs) == SelectSeq(privs, LAMBDA priv : PrincipalKey(priv) \notin {None, ""})

\* C13: the ACL read from a document holds, in list order, one Allow entry per
\* privilege that has a key (its user's identity, else its group name), with
\* that key and that privilege's permissions, and then DENY_ALL as the last
\* and only deny entry; a privilege without a key adds no entry.
C13_AclShape ==
    last.op = "__acl__"
    => LET keyed == Keyed(last.pre.privileges)
           aces == last.out.result
       IN  /\ Len(aces) = Len(keyed) + 1
           /\ aces[Len(aces)] = DENY_ALL
           /\ \A i \in 1..Len(keyed) :
                  aces[i] = [action |-> "Allow", principal |-> PrincipalKey(keyed[i]),
                             permissions |-> keyed[i].permissions]

\* A user grant, a privilege without a key and a group grant give two Allow
\* entries and DENY_ALL.
C13_Witness ==
    /\ last.op = "__acl__"
    /\ Len(last.pre.privileges) = 3
    /\ last.pre.privileges[1].user = "u2"
    /\ PrincipalKey(last.pre.privileges[2]) = None
    /\ last.pre.privileges[3].group = "g1" /\ last.pre.privileges[3].user = None
    /\ Len(last.out.result) = 3

\* C14: a may call without a may_<permission> method decides on the privilege
\* list the document holds when the call is made, whatever calls changed the
\* list before and whether or not the change was persisted.
C14_MayUsesCurrentList ==
    [][(last'.op = "may" /\ ~Falsy(last'.args.permission) /\ ~HasMayMethod(last'.args.permission))
       => (last'.out.result <=> HoldsGrant(privileges, last'.args.request.v, last'.args.permission))]_vars

\* A grant made in memory on a document that was never saved decides the may
\* call that follows it.
C14_Witness ==
    /\ last.op = "may" /\ ~HasMayMethod(last.args.permission) /\ last.out.result
    /\ pk = None /\ privileges # <<>>

\* The privileges of a list that are the principal's.
PrivilegesOf(privs, principal) ==
    {i \in DOMAIN privs : \/ principal.py = "str" /\ privs[i].group = principal.v
                          \/ principal.py = "Document" /\ privs[i].user = principal.v /\ principal.v # None}

\* C15: the privilege list never holds two privileges of one principal; and
\* get_privilege with create=True appends a privilege only for a principal
\* that has none, and otherwise returns the one the list already holds and
\* leaves the list as it was.
C15_OnePrivilegePerPrincipal ==
    /\ \A i, j \in DOMAIN privileges :
           (privileges[i].user = privileges[j].user /\ privileges[i].group = privileges[j].group) => i = j
    /\ (last.op = "get_privilege" /\ last.args.create /\ last.out.raised = NoError)
       => /\ PrivilegesOf(privileges, last.args.principal) = {last.out.index}
          /\ PrivilegesOf(last.pre.privileges, last.args.principal) # {}
             => /\ privileges = last.pre.privileges
                /\ last.out.index \in PrivilegesOf(last.pre.privileges, last.args.principal)

\* get_privilege with create=True for a principal that already has a
\* privilege, on a list of two.
C15_Witness ==
    /\ last.op = "get_privilege" /\ last.args.create
    /\ PrivilegesOf(last.pre.privileges, last.args.principal) # {}
    /\ Len(last.pre.privileges) >= 2
    /\ Len(privileges) = Len(last.pre.privileges)

\* A list without its i-th element.
Without(privs, i) == [k \in 1..(Len(privs) - 1) |-> IF k < i THEN privs[k] ELSE privs[k + 1]]

Named(permissions) == IF permissions.py = "str" THEN {permissions.v} ELSE Range(permissions.v)

Held(priv) == Range(priv.permissions)

\* C17: on a Privilege, set(S) and then add(S) leaves the permissions S;
\* add(T) leaves the union with T, and a second add(T) leaves it as it is;
\* remove(T) leaves the difference, raises nothing, and changes nothing when
\* no permission of T is held.
C17_PermissionAlgebra ==
    LET before == Held(last.pre.privileges[1])
        after == Held(privileges[1])
        T == Named(last.args.permissions)
    IN  /\ last.op = "Privilege.set"
           => (after = T /\ Held(Privilege_add(privileges[1], last.args.permissions)) = T)
        /\ last.op = "Privilege.add"
           => (after = before \cup T /\ Held(Privilege_add(privileges[1], last.args.permissions)) = after)
        /\ last.op = "Privilege.remove"
           => /\ after = before \ T
              /\ last.out.raised = NoError
              /\ (T \cap before = {}) => after = before

\* remove is handed one permission the Privilege holds and one it does not.
C17_Witness ==
    /\ last.op = "Privilege.remove"
    /\ Named(last.args.permissions) \cap Held(last.pre.privileges[1]) # {}
    /\ Named(last.args.permissions) \ Held(last.pre.privileges[1]) # {}
    /\ Held(privileges[1]) # {}

\* C18: a grant or a revoke by a caller whom may denies the document's update
\* permission, and a save of a persisted document with no changed field by
\* such a caller, raise an error instead of returning.
C18_DenialRaises ==
    /\ (last.op \in {"grant", "revoke"} /\ last.pre.pk # None /\ DefaultCaller
        /\ ~MayBefore(get_permission_for(docType, "update")))
       => last.out.raised # NoError
    /\ (last.op = "save" /\ last.args.request.py = "Request" /\ last.pre.pk # None
        /\ last.args.changed_fields = <<>> /\ ~MayBefore(get_permission_for(docType, "update")))
       => last.out.raised # NoError

\* The authorization error naming an action and the permission it required.
Denied(action, permission) == [exc |-> "PermissionError", attribute_name |-> action, permission |-> permission]

\* C19: a denied delete raises PermissionError naming 'delete' and the
\* permission resolved for delete; a denied save of a new document and a
\* denied update of the whole document do likewise with 'save' and 'update';
\* no other error comes out of building it.
C19_DenialError ==
    /\ (last.op = "delete" /\ last.pre.pk # None /\ ~MayBefore(get_permission_for(docType, "delete")))
       => last.out.raised = Denied("delete", get_permission_for(docType, "delete"))
    /\ (last.op = "save" /\ last.args.request.py = "Request" /\ last.pre.pk = None
        /\ ~MayBefore(get_permission_for(docType, "create")))
       => last.out.raised = Denied("save", get_permission_for(docType, "create"))
    /\ (last.op = "update" /\ last.pre.pk # None /\ last.args.field_name = None
        /\ ~MayBefore(get_permission_for(docType, "update")))
       => last.out.raised = Denied("update", get_permission_for(docType, "update"))

\* The permission save resolves for the document as it was: for 'create'
\* when it had no pk, for 'update' otherwise.
SavePermission == get_permission_for(docType, IF last.pre.pk = None THEN "create" ELSE "update")

\* C20: save asks may for the permission resolved for 'create' when the
\* document has no pk and for 'update' when it has one, and calls the
\* persistence save exactly when may allows it; the pk goes from absent to
\* present only in a save whose may check for the create permission allowed;
\* a denied save of a document without pk raises the authorization error and
\* leaves the pk absent.
C20_SaveCreateGate ==
    /\ (last.op = "save" /\ last.args.request.py = "Request")
       => /\ PersistenceCalled("save") <=> MayBefore(SavePermission)
          /\ ~Falsy(SavePermission) => (last.out.calls # <<>> /\ last.out.calls[1].name = SavePermission)
    /\ (last.op # "none" /\ last.pre.pk = None /\ pk # None)
       => (last.op = "save" /\ MayBefore(get_permission_for(docType, "create")))
    /\ (last.op = "save" /\ last.args.request.py = "Request" /\ last.pre.pk = None
        /\ ~MayBefore(get_permission_for(docType, "create")))
       => (last.out.raised.exc = "PermissionError" /\ pk = None)

\* C21: in a type with an explicit mapping, get_permission_for of a field
\* name that the mapping does not hold, and that is none of create, update
\* and delete, gives the mapping's entry for 'update'.
C21_UnmappedFieldResolvesToUpdate ==
    (/\ last.op = "get_permission_for"
     /\ ExplicitMapping
     /\ last.args.name \notin DOMAIN meta(docType).permissions
     /\ last.args.name \notin {"create", "update", "delete"})
    => last.out.result = meta(docType).permissions["update"]

\* C22: after a call of set, add or remove, no permission name occurs twice
\* in the Privilege's permissions.
C22_NoRepeatedPermission ==
    last.op \in {"Privilege.set", "Privilege.add", "Privilege.remove"}
    => \A i, j \in DOMAIN privileges[1].permissions :
          privileges[1].permissions[i] = privileges[1].permissions[j] => i = j

\* C23: a grant or a revoke on a persisted document that ends with an error
\* leaves the document's privilege list as it was before the call.
C23_FailedGrantKeepsPrivileges ==
    (last.op \in {"grant", "revoke"} /\ last.pre.pk # None /\ last.out.raised # NoError)
    => privileges = last.pre.privileges

\* C24: update for a field name the document does not have ends with an
\* error, and the field is not handed to the persistence update.
C24_UnknownFieldFails ==
    (last.op = "update" /\ last.pre.pk # None /\ last.args.field_name \in FieldNames \ TrackedFields)
    => (last.out.raised # NoError /\ last.args.field_name \notin PersistedFields)

\* C25: when may allows the permission resolved for 'update', save of a
\* persisted document persists the document as a whole and makes no other
\* permission check: no field permission is resolved and may_update_files is
\* not called, whatever fields are marked as changed.
C25_WholeSaveSkipsFieldChecks ==
    (/\ last.op = "save" /\ last.args.request.py = "Request" /\ last.pre.pk # None
     /\ MayBefore(get_permission_for(docType, "update")))
    => /\ last.out.raised = NoError
       /\ last.out.persisted = <<[op |-> "save", field |-> None]>>
       /\ MayMethodCalls("update_files") = 0
       /\ \A i \in DOMAIN last.out.calls :
              i = 1 /\ last.out.calls[i].name = get_permission_for(docType, "update")

\* A Directory with `files` marked as changed is saved by the user who
\* created it.
C25_Witness ==
    /\ last.op = "save" /\ docType = "Directory" /\ last.pre.pk # None
    /\ last.args.request.py = "Request"
    /\ "files" \in Range(last.args.changed_fields)
    /\ GrantedBefore("update")
    /\ last.out.persisted = <<[op |-> "save", field |-> None]>>

\* The document's type has no may_create of its own and inherits the mixin's.
InheritsMayCreate == "create" \in DOMAIN meta(docType).may_methods /\ meta(docType).may_methods["create"] = "mixin"

\* C26: on a type that inherits may_create, may for the permission 'create'
\* gives the process-wide may_create_default, whoever asks and whatever the
\* privilege list grants; the ACL is not read.
C26_InheritedMayCreate ==
    (last.op = "may" /\ last.args.permission = "create" /\ InheritsMayCreate)
    => /\ last.out.result = may_create_default
       /\ \A i \in DOMAIN last.out.calls : last.out.calls[i].call # "has_permission"

\* The flag is off and the list grants 'create' to the user who asks.
C26_Witness ==
    /\ last.op = "may" /\ last.args.permission = "create" /\ InheritsMayCreate
    /\ ~may_create_default
    /\ HoldsGrant(privileges, last.args.request.v, "create")
    /\ ~last.out.result

====
